---- MODULE Spec2Model ----
(***************************************************************************)
(* Model of the item-filtering engine OSRSItemFilter                       *)
(* (src/python/osrs_filter.py): the retained dataframe self.df, the        *)
(* operations that build, enrich, filter, hand out and restore it, and     *)
(* the values a caller holds.                                              *)
(*                                                                         *)
(* Representation.  A cell is NA (None / NaN / NaT) or Val(v).  A          *)
(* dataframe is [cols, rows]: the set of column names it has and the       *)
(* sequence of its rows; a row carries every field, and a field whose      *)
(* column is absent is NA and is never read (reading it is a KeyError,     *)
(* modelled by ColumnsRead and a raised outcome).  Times and durations are *)
(* whole hours.  margin_pct is kept in hundredths of a percent (the code   *)
(* rounds it to 2 decimals) and flip_efficiency in halves (the code        *)
(* divides an integer by 2).  The two display columns bought_time_rel and  *)
(* sold_time_rel are not carried; only the column reads that compute them  *)
(* are modelled, because they can raise.  A file written by save holds the *)
(* columns and cells of the frame; the three formats give the item ids,    *)
(* names, prices, limits and whole-second times back as they were, except  *)
(* that CSV reads an empty text as null.                                   *)
(*                                                                         *)
(* Specifications.  Spec: sessions of every operation.  SpecFilter: a      *)
(* dataset is loaded, enriched and filtered with every call tried.         *)
(* SpecMetrics: calculate_volume_metrics and its trend classifier applied  *)
(* to drawn inputs; series timestamps there are whole minutes.             *)
(***************************************************************************)
EXTENDS Integers, Sequences, FiniteSets, TLC

VARIABLES
    df,        \* self.df: None, or the retained dataframe
    ret,       \* the dataframe object the last call returned to the caller (None if it
               \* returned no frame); the caller keeps no older one
    aliased,   \* TRUE iff the caller's object is the very object self.df refers to
    last       \* record of the last call: what was called, what it saw, how it ended

vars == <<df, ret, aliased, last>>

-----------------------------------------------------------------------------
(* Cells *)

NA == <<>>

Val(v) == <<v>>

IsNA(c) == c = NA

\* Python None where a dataframe or a record is expected
None == [none |-> TRUE]

\* Comparisons of a column cell with a scalar: NaN compares False.
Ge(c, x) == ~IsNA(c) /\ c[1] >= x

Le(c, x) == ~IsNA(c) /\ c[1] <= x

\* numpy rint of n/d (round half to even), d > 0.
RoundHalfEven(n, d) ==
    LET q == n \div d
        r == n % d
    IN  IF 2 * r < d THEN q
        ELSE IF 2 * r > d THEN q + 1
        ELSE IF q % 2 = 0 THEN q ELSE q + 1

-----------------------------------------------------------------------------
(* Bounds of the model *)

\* the clock (pd.Timestamp.now, in hours) reads 10 .. MaxNow
MaxNow == 11

\* the largest limit argument tried
MaxLimit == 2

\* the longest price series handed to the trend classifier
MaxPoints == 5

-----------------------------------------------------------------------------
(* Columns *)

PriceColumns == {"item_id", "bought_price", "last_bought_time", "sold_price", "last_sold_time"}

MappingColumns == {"id", "name", "buy_limit", "members"}

DerivedColumns == {"margin_gp", "margin_pct", "flip_efficiency"}

\* volume_columns, in the order of the list
volume_columns ==
    << "bought_volume_20m", "sold_volume_20m",
       "avg_bought_price_20m", "avg_sold_price_20m", "avg_margin_gp_20m",
       "bought_volume_1h", "sold_volume_1h",
       "avg_bought_price_1h", "avg_sold_price_1h", "avg_margin_gp_1h",
       "bought_volume_24h", "sold_volume_24h",
       "avg_bought_price_24h", "avg_sold_price_24h", "avg_margin_gp_24h",
       "bought_price_trend_1h", "sold_price_trend_1h",
       "bought_price_trend_24h", "sold_price_trend_24h",
       "bought_price_trend_1w", "sold_price_trend_1w",
       "bought_price_trend_1m", "sold_price_trend_1m" >>

VolumeColumnSet == {volume_columns[i] : i \in DOMAIN volume_columns}

TrendColumnSet ==
    {"bought_price_trend_1h", "sold_price_trend_1h",
     "bought_price_trend_24h", "sold_price_trend_24h",
     "bought_price_trend_1w", "sold_price_trend_1w",
     "bought_price_trend_1m", "sold_price_trend_1m"}

\* pd.DataFrame(): no columns, no rows
EmptyFrame == [cols |-> {}, rows |-> <<>>]

\* DataFrame.empty: any axis of length 0
IsEmpty(d) == d.cols = {} \/ Len(d.rows) = 0

\* not has_data(): self.df is None or empty
NoData(d) == IF d = None THEN TRUE ELSE IsEmpty(d)

\* volume cells of a row whose volume columns are absent
NoVolume == [c \in VolumeColumnSet |-> NA]

-----------------------------------------------------------------------------
(* What the external sources can answer *)

Name(s) == Val(s)

\* GET /latest: the entries of the response's 'data', in the order of the
\* dictionary; <<>> is a failed request ({}) or a response without entries.
LatestScenario ==
    << [item_id |-> 1, high |-> Val(110), highTime |-> Val(9), low |-> Val(100), lowTime |-> Val(9)],
       [item_id |-> 2, high |-> Val(50),  highTime |-> Val(9), low |-> Val(48),  lowTime |-> Val(2)],
       [item_id |-> 3, high |-> Val(60),  highTime |-> Val(4), low |-> NA,       lowTime |-> NA] >>

\* a later answer: item 2 was last bought long ago and sold just now, and
\* item 5 has prices without times
LatestLater ==
    << [item_id |-> 2, high |-> Val(52), highTime |-> Val(3), low |-> Val(47), lowTime |-> Val(10)],
       [item_id |-> 5, high |-> Val(40), highTime |-> NA,     low |-> Val(30), lowTime |-> NA] >>

\* GET /mapping: the list of item records; <<>> is a failed request ({}) or
\* an empty list.  Item 3 has no record, item 4 has no price, and the second
\* answer lists item 2 twice.
MappingScenario ==
    << [id |-> 1, name |-> Name(<<"A", "x", "e">>), limit |-> Val(50), members |-> Val(FALSE)],
       [id |-> 2, name |-> Name(<<"B", "a", "r">>), limit |-> Val(5),  members |-> Val(TRUE)],
       [id |-> 4, name |-> Name(<<"O", "r", "e">>), limit |-> NA,      members |-> Val(TRUE)] >>

MappingRepeated ==
    << [id |-> 2, name |-> Name(<<"B", "a", "r">>), limit |-> Val(5),  members |-> Val(TRUE)],
       [id |-> 1, name |-> Name(<<"A", "x", "e">>), limit |-> Val(50), members |-> Val(FALSE)],
       [id |-> 2, name |-> Name(<<"b", "a", "r">>), limit |-> Val(5),  members |-> Val(TRUE)] >>

-----------------------------------------------------------------------------
(* Dataset Builder *)

\* create_item_mapping_df: an empty answer gives pd.DataFrame(), otherwise one
\* row per record with the record's keys as columns.
create_item_mapping_df(mapping_data) ==
    IF mapping_data = <<>> THEN EmptyFrame
    ELSE [cols |-> {"id", "name", "limit", "members"}, rows |-> mapping_data]

\* create_latest_prices_df: one record per entry of 'data'; no entry gives a
\* frame without columns; the two times become timestamps (NaT when null).
create_latest_prices_df(prices_data) ==
    IF prices_data = <<>> THEN EmptyFrame
    ELSE [cols |-> PriceColumns,
          rows |-> [i \in DOMAIN prices_data |->
                      [item_id          |-> prices_data[i].item_id,
                       bought_price     |-> prices_data[i].high,
                       last_bought_time |-> prices_data[i].highTime,
                       sold_price       |-> prices_data[i].low,
                       last_sold_time   |-> prices_data[i].lowTime]]]

\* one merged row: the price row p with the mapping record m (limit renamed
\* to buy_limit), or with nulls when m is None
MergedRow(p, m) ==
    [item_id          |-> p.item_id,
     bought_price     |-> p.bought_price,
     last_bought_time |-> p.last_bought_time,
     sold_price       |-> p.sold_price,
     last_sold_time   |-> p.last_sold_time,
     id               |-> IF m = None THEN NA ELSE Val(m.id),
     name             |-> IF m = None THEN NA ELSE m.name,
     buy_limit        |-> IF m = None THEN NA ELSE m.limit,
     members          |-> IF m = None THEN NA ELSE m.members,
     margin_gp        |-> NA,
     margin_pct       |-> NA,
     flip_efficiency  |-> NA,
     vol              |-> NoVolume]

\* the rows an inner join gives for the price row p
InnerJoinRow(p, items) ==
    LET hits == SelectSeq(items, LAMBDA m : m.id = p.item_id)
    IN  [j \in DOMAIN hits |-> MergedRow(p, hits[j])]

\* the rows a left join gives for the price row p: one per mapping record of
\* the same id, in the order of the mapping, or one with nulls
LeftJoinRow(p, items) ==
    LET hits == SelectSeq(items, LAMBDA m : m.id = p.item_id)
    IN  IF hits = <<>> THEN << MergedRow(p, None) >>
        ELSE [j \in DOMAIN hits |-> MergedRow(p, hits[j])]

RECURSIVE LeftJoin(_, _)
LeftJoin(prices, items) ==
    IF prices = <<>> THEN <<>>
    ELSE LeftJoinRow(Head(prices), items) \o LeftJoin(Tail(prices), items)

\* merge_prices_with_items: prices_df.merge(items_df, left_on='item_id',
\* right_on='id', how='left')
merge_prices_with_items(prices_df, items_df) ==
    IF IsEmpty(prices_df) \/ IsEmpty(items_df) THEN EmptyFrame
    ELSE [cols |-> PriceColumns \cup MappingColumns,
          rows |-> LeftJoin(prices_df.rows, items_df.rows)]

\* margin_gp = bought_price - sold_price.round(0); prices are whole numbers
margin_gp_of(r) ==
    IF IsNA(r.bought_price) \/ IsNA(r.sold_price) THEN NA
    ELSE Val(r.bought_price[1] - r.sold_price[1])

\* margin_pct cut to 2 decimals instead of rounded
margin_pct_truncated(r) ==
    IF IsNA(r.bought_price) \/ IsNA(r.sold_price) THEN NA
    ELSE Val(((r.bought_price[1] - r.sold_price[1]) * 10000) \div r.sold_price[1])

\* margin_pct = ((bought_price - sold_price) / sold_price * 100).round(2),
\* in hundredths; sold_price is a positive price
margin_pct_of(r) ==
    IF IsNA(r.bought_price) \/ IsNA(r.sold_price) THEN NA
    ELSE Val(RoundHalfEven((r.bought_price[1] - r.sold_price[1]) * 10000, r.sold_price[1]))

\* margin_gp * (sold_volume_1h + bought_volume_1h) / 2, in halves
flip_efficiency_of(r) ==
    IF IsNA(r.margin_gp) \/ IsNA(r.vol["sold_volume_1h"]) \/ IsNA(r.vol["bought_volume_1h"])
    THEN NA
    ELSE Val(r.margin_gp[1] * (r.vol["sold_volume_1h"][1] + r.vol["bought_volume_1h"][1]))

HasVolume1h(d) == "sold_volume_1h" \in d.cols /\ "bought_volume_1h" \in d.cols

\* lines 347-359 on one row
WithMargins(d, r) ==
    LET r1 == [r  EXCEPT !.margin_gp  = margin_gp_of(r)]
        r2 == [r1 EXCEPT !.margin_pct = margin_pct_of(r)]
    IN  [r2 EXCEPT !.flip_efficiency =
                      IF HasVolume1h(d) THEN flip_efficiency_of(r2) ELSE Val(0)]

\* compute_derived_columns on the frame d (self.df, mutated in place):
\* the frame afterwards and whether a KeyError left the method early
compute_derived_columns(d) ==
    IF NoData(d) THEN [raised |-> FALSE, df |-> d]
    ELSE IF ~({"bought_price", "sold_price"} \subseteq d.cols)
    THEN [raised |-> TRUE, df |-> d]
    ELSE LET done == [cols |-> d.cols \cup DerivedColumns,
                      rows |-> [i \in DOMAIN d.rows |-> WithMargins(d, d.rows[i])]]
         IN  [raised |-> ~({"last_bought_time", "last_sold_time"} \subseteq d.cols),
              df     |-> done]

-----------------------------------------------------------------------------
(* Filter Pipeline: the arguments of apply_filter *)

\* sort_by as a (column, direction) tuple, as a bare column name, or None
SortTuple(c, dir) == [kind |-> "tuple", col |-> c, dir |-> dir]

SortStr(c) == [kind |-> "str", col |-> c, dir |-> "desc"]

SortNone == [kind |-> "none", col |-> "", dir |-> ""]

\* the defaults of the signature: every criterion None, sort_by
\* ("last_bought_time", "desc"), limit 0
DefaultArgs ==
    [buy_limit_min |-> NA, buy_limit_max |-> NA,
     bought_price_min |-> NA, bought_price_max |-> NA,
     sold_price_min |-> NA, sold_price_max |-> NA,
     margin_min |-> NA, margin_max |-> NA,
     margin_pct_min |-> NA, margin_pct_max |-> NA,
     volume_1h_min |-> NA, volume_24h_min |-> NA,
     members_only |-> NA,
     max_hours_since_update |-> NA,
     name_contains |-> NA,
     exclude_items |-> NA,
     sort_by |-> SortTuple("last_bought_time", "desc"),
     limit |-> Val(0)]

\* the criteria of the signature
CriteriaNames ==
    {"buy_limit_min", "buy_limit_max", "bought_price_min", "bought_price_max",
     "sold_price_min", "sold_price_max", "margin_min", "margin_max",
     "margin_pct_min", "margin_pct_max", "volume_1h_min", "volume_24h_min",
     "members_only", "max_hours_since_update", "name_contains", "exclude_items"}

\* the criteria a call gives (not None)
Given(a) == {c \in CriteriaNames : ~IsNA(a[c])}

NoLimit(a) == IF IsNA(a.limit) THEN TRUE ELSE a.limit[1] = 0

\* two calls that give different criteria and no limit
Independent(a1, a2) ==
    /\ Given(a1) # {} /\ Given(a2) # {}
    /\ Given(a1) \cap Given(a2) = {}
    /\ NoLimit(a1) /\ NoLimit(a2)

\* the one call that gives the criteria of both
Both(a1, a2) == [c \in DOMAIN a1 |-> IF c \in Given(a2) THEN a2[c] ELSE a1[c]]

\* str.lower on the letters the names use
Lower(c) ==
    CASE c = "A" -> "a"
      [] c = "B" -> "b"
      [] c = "O" -> "o"
      [] c = "X" -> "x"
      [] OTHER -> c

LowerStr(s) == [i \in DOMAIN s |-> Lower(s[i])]

\* re.search of a literal pattern, ignoring case: pat occurs in s
Contains(s, pat) ==
    \E i \in 0 .. Len(s) - Len(pat) :
        SubSeq(LowerStr(s), i + 1, i + Len(pat)) = LowerStr(pat)

\* Series.str.contains(pat, case=False, na=False) on one cell
StrContains(c, pat) == ~IsNA(c) /\ Contains(c[1], pat)

\* the same for the pattern '|'.join(items): any alternative occurs; the
\* join of no alternative is the empty pattern
StrContainsAny(c, items) ==
    IF items = <<>> THEN StrContains(c, <<>>)
    ELSE \E k \in DOMAIN items : StrContains(c, items[k])

\* the cell of row r in column c, for the columns that are compared or sorted
Cell(r, c) ==
    CASE c = "item_id"          -> Val(r.item_id)
      [] c = "bought_price"     -> r.bought_price
      [] c = "sold_price"       -> r.sold_price
      [] c = "last_bought_time" -> r.last_bought_time
      [] c = "last_sold_time"   -> r.last_sold_time
      [] c = "id"               -> r.id
      [] c = "buy_limit"        -> r.buy_limit
      [] c = "margin_gp"        -> r.margin_gp
      [] c = "margin_pct"       -> r.margin_pct
      [] c = "flip_efficiency"  -> r.flip_efficiency
      [] c \in VolumeColumnSet  -> r.vol[c]
      [] OTHER                  -> NA

\* the columns a call with arguments a reads without checking that they
\* exist (a missing one is a KeyError): dropna's subset, then each criterion
\* that is not None
ColumnsRead(a) ==
    {"bought_price", "sold_price"}
    \cup (IF IsNA(a.margin_min) /\ IsNA(a.margin_max) THEN {} ELSE {"margin_gp"})
    \cup (IF IsNA(a.margin_pct_min) /\ IsNA(a.margin_pct_max) THEN {} ELSE {"margin_pct"})
    \cup (IF IsNA(a.volume_1h_min) THEN {} ELSE {"bought_volume_1h", "sold_volume_1h"})
    \cup (IF IsNA(a.volume_24h_min) THEN {} ELSE {"bought_volume_24h", "sold_volume_24h"})
    \cup (IF IsNA(a.max_hours_since_update) THEN {} ELSE {"last_bought_time", "last_sold_time"})

\* dropna with a subset that names one of the two prices only
dropna_bought_only(rows) ==
    SelectSeq(rows, LAMBDA r : ~IsNA(r.bought_price))

\* df.dropna(subset=['bought_price', 'sold_price'])
dropna(rows) ==
    SelectSeq(rows, LAMBDA r : ~IsNA(r.bought_price) /\ ~IsNA(r.sold_price))

\* lines 475-483
pass_buy_limit(r, cols, a) ==
    /\ (~IsNA(a.buy_limit_min) /\ "buy_limit" \in cols) => Ge(r.buy_limit, a.buy_limit_min[1])
    /\ (~IsNA(a.buy_limit_max) /\ "buy_limit" \in cols) => Le(r.buy_limit, a.buy_limit_max[1])

\* the price criteria bounding the columns of their own names
pass_price_own_name(r, a) ==
    /\ ~IsNA(a.bought_price_min) => Ge(r.bought_price, a.bought_price_min[1])
    /\ ~IsNA(a.bought_price_max) => Le(r.bought_price, a.bought_price_max[1])
    /\ ~IsNA(a.sold_price_min) => Ge(r.sold_price, a.sold_price_min[1])
    /\ ~IsNA(a.sold_price_max) => Le(r.sold_price, a.sold_price_max[1])

\* lines 485-503: bought_price_* bound sold_price, sold_price_* bound bought_price
pass_price(r, a) ==
    /\ ~IsNA(a.bought_price_min) => Ge(r.sold_price, a.bought_price_min[1])
    /\ ~IsNA(a.bought_price_max) => Le(r.sold_price, a.bought_price_max[1])
    /\ ~IsNA(a.sold_price_min) => Ge(r.bought_price, a.sold_price_min[1])
    /\ ~IsNA(a.sold_price_max) => Le(r.bought_price, a.sold_price_max[1])

\* lines 505-523
pass_margin(r, a) ==
    /\ ~IsNA(a.margin_min) => Ge(r.margin_gp, a.margin_min[1])
    /\ ~IsNA(a.margin_max) => Le(r.margin_gp, a.margin_max[1])
    /\ ~IsNA(a.margin_pct_min) => Ge(r.margin_pct, a.margin_pct_min[1])
    /\ ~IsNA(a.margin_pct_max) => Le(r.margin_pct, a.margin_pct_max[1])

\* the volume criteria with | in place of &: one side is enough
pass_volume_either(r, a) ==
    /\ ~IsNA(a.volume_1h_min) =>
          \/ Ge(r.vol["bought_volume_1h"], a.volume_1h_min[1])
          \/ Ge(r.vol["sold_volume_1h"], a.volume_1h_min[1])
    /\ ~IsNA(a.volume_24h_min) =>
          \/ Ge(r.vol["bought_volume_24h"], a.volume_24h_min[1])
          \/ Ge(r.vol["sold_volume_24h"], a.volume_24h_min[1])

\* lines 525-535: both sides of the window must reach the threshold
pass_volume(r, a) ==
    /\ ~IsNA(a.volume_1h_min) =>
          /\ Ge(r.vol["bought_volume_1h"], a.volume_1h_min[1])
          /\ Ge(r.vol["sold_volume_1h"], a.volume_1h_min[1])
    /\ ~IsNA(a.volume_24h_min) =>
          /\ Ge(r.vol["bought_volume_24h"], a.volume_24h_min[1])
          /\ Ge(r.vol["sold_volume_24h"], a.volume_24h_min[1])

\* lines 537-541
pass_members(r, cols, a) ==
    (~IsNA(a.members_only) /\ "members" \in cols) => r.members = a.members_only

\* the recency criterion asking for both times to be recent
pass_recency_both(r, a, t) ==
    ~IsNA(a.max_hours_since_update) =>
        LET cutoff_time == t - a.max_hours_since_update[1]
        IN  /\ Ge(r.last_bought_time, cutoff_time)
            /\ Ge(r.last_sold_time, cutoff_time)

\* lines 543-555: either time is not older than the cutoff
pass_recency(r, a, t) ==
    ~IsNA(a.max_hours_since_update) =>
        LET cutoff_time == t - a.max_hours_since_update[1]
        IN  \/ Ge(r.last_bought_time, cutoff_time)
            \/ Ge(r.last_sold_time, cutoff_time)

\* lines 557-566
pass_name(r, cols, a) ==
    /\ (~IsNA(a.name_contains) /\ "name" \in cols) => StrContains(r.name, a.name_contains[1])
    /\ (~IsNA(a.exclude_items) /\ "name" \in cols) => ~StrContainsAny(r.name, a.exclude_items[1])

\* the rows of d that lines 468-566 keep, in their order
filter_rows(d, a, t) ==
    SelectSeq(dropna(d.rows),
              LAMBDA r : /\ pass_buy_limit(r, d.cols, a)
                         /\ pass_price(r, a)
                         /\ pass_margin(r, a)
                         /\ pass_volume(r, a)
                         /\ pass_members(r, d.cols, a)
                         /\ pass_recency(r, a, t)
                         /\ pass_name(r, d.cols, a))

-----------------------------------------------------------------------------
(* Filter Pipeline: sort, limit, and the call as a whole *)

Perms(n) == {p \in [1 .. n -> 1 .. n] : \A i, j \in 1 .. n : p[i] = p[j] => i = j}

\* p arranges rows by column c: keyed rows first, in key order, then the
\* rows with a null key in the order they had (na_position='last')
Arranges(p, rows, c, ascending) ==
    \A i, j \in DOMAIN rows :
        i < j =>
            LET ki == Cell(rows[p[i]], c)
                kj == Cell(rows[p[j]], c)
            IN  /\ IsNA(ki) => (IsNA(kj) /\ p[i] < p[j])
                /\ (~IsNA(ki) /\ ~IsNA(kj)) =>
                       IF ascending THEN ki[1] <= kj[1] ELSE ki[1] >= kj[1]

\* DataFrame.sort_values(c, ascending=ascending) with the default
\* kind='quicksort', which is not stable: rows of equal key come out in any
\* order, so every arrangement by key is a possible result.
sort_values(rows, c, ascending) ==
    {[i \in DOMAIN rows |-> rows[p[i]]] :
        p \in {q \in Perms(Len(rows)) : Arranges(q, rows, c, ascending)}}

\* the sorting step falling back to the default column when the named one
\* is missing
sort_step_fallback(rows, cols, a) ==
    IF a.sort_by.kind = "none" THEN {rows}
    ELSE IF a.sort_by.col \notin cols THEN sort_values(rows, "last_bought_time", FALSE)
    ELSE sort_values(rows, a.sort_by.col,
                     a.sort_by.kind = "tuple" /\ a.sort_by.dir = "asc")

\* lines 568-588: the possible results of the sorting step
sort_step(rows, cols, a) ==
    IF a.sort_by.kind = "none" \/ a.sort_by.col \notin cols THEN {rows}
    ELSE sort_values(rows, a.sort_by.col,
                     a.sort_by.kind = "tuple" /\ a.sort_by.dir = "asc")

\* df.head(limit) whenever a limit is given, 0 included
head_limit_zero(rows, a) ==
    IF ~IsNA(a.limit)
    THEN SubSeq(rows, 1, IF a.limit[1] < Len(rows) THEN a.limit[1] ELSE Len(rows))
    ELSE rows

\* lines 590-595: df.head(limit) when limit is a positive number
head_limit(rows, a) ==
    IF ~IsNA(a.limit) /\ a.limit[1] > 0
    THEN SubSeq(rows, 1, IF a.limit[1] < Len(rows) THEN a.limit[1] ELSE Len(rows))
    ELSE rows

\* lines 465-599 on the non-empty retained frame d at time t: the possible
\* outcomes, each the frame bound to df at the end and whether a KeyError
\* left the method before self.df was assigned
filter_sort_limit(d, a, t) ==
    IF ~(ColumnsRead(a) \subseteq d.cols)
    THEN {[raised |-> TRUE, df |-> d]}
    ELSE {[raised |-> FALSE, df |-> [cols |-> d.cols, rows |-> head_limit(s, a)]] :
             s \in sort_step(filter_rows(d, a, t), d.cols, a)}

\* load_data's else branch of line 333: what self.df becomes after a fetch
fetch_and_build(mapping_data, prices_data) ==
    LET items_df  == create_item_mapping_df(mapping_data)
        prices_df == create_latest_prices_df(prices_data)
    IN  IF ~IsEmpty(items_df) /\ ~IsEmpty(prices_df)
        THEN compute_derived_columns(merge_prices_with_items(prices_df, items_df)).df
        ELSE None

\* load_data without the assignment of line 339: a failed fetch keeps d
load_data_keeps(d, force_reload, mapping_data, prices_data) ==
    IF ~force_reload /\ d # None THEN d
    ELSE IF fetch_and_build(mapping_data, prices_data) = None THEN d
    ELSE fetch_and_build(mapping_data, prices_data)

\* load_data(force_reload) on the retained value d
load_data(d, force_reload, mapping_data, prices_data) ==
    IF ~force_reload /\ d # None THEN d
    ELSE fetch_and_build(mapping_data, prices_data)

\* apply_filter without the assignment of line 598: self.df keeps the
\* unfiltered frame and the filtered copy is only returned
apply_filter_keeps(d, a, t, mapping_data, prices_data) ==
    LET d1 == IF NoData(d)
              THEN load_data(d, FALSE, mapping_data, prices_data)
              ELSE d
    IN  IF NoData(d1)
        THEN {[df |-> d1, raised |-> FALSE, returned |-> EmptyFrame, same |-> FALSE]}
        ELSE {[df |-> d1, raised |-> o.raised,
               returned |-> IF o.raised THEN None ELSE o.df,
               same |-> FALSE] : o \in filter_sort_limit(d1, a, t)}

\* apply_filter on the retained value d: the possible outcomes
\* [df: self.df afterwards, raised, returned: the frame returned (None when
\* raised), same: whether the returned frame is the object self.df holds]
apply_filter(d, a, t, mapping_data, prices_data) ==
    LET d1 == IF NoData(d)
              THEN load_data(d, FALSE, mapping_data, prices_data)
              ELSE d
    IN  IF NoData(d1)
        THEN {[df |-> d1, raised |-> FALSE, returned |-> EmptyFrame, same |-> FALSE]}
        ELSE {[df |-> o.df, raised |-> o.raised,
               returned |-> IF o.raised THEN None ELSE o.df,
               same |-> ~o.raised] : o \in filter_sort_limit(d1, a, t)}

-----------------------------------------------------------------------------
(* Volume metrics of one item: calculate_volume_metrics *)

\* Series timestamps and window lengths are whole minutes.  An observation
\* is [timestamp, avgHighPrice, avgLowPrice, highPriceVolume,
\* lowPriceVolume]; the two prices are cells (null when nothing was traded
\* in the bucket).  A timeseries answer is NA (a failed request, or no
\* 'data' key) or Val(the list under 'data').

Abs(n) == IF n < 0 THEN 0 - n ELSE n

\* twice the numerator of the least-squares slope of y against
\* x = 0 .. len(y)-1, from position i on: sum of (2 x - (len(y)-1)) * y[x]
RECURSIVE SlopeSum(_, _)
SlopeSum(y, i) ==
    IF i > Len(y) THEN 0
    ELSE (2 * (i - 1) - (Len(y) - 1)) * y[i][1] + SlopeSum(y, i + 1)

\* slope > 0 for the slope of stats.linregress(x, y); the slope of a series
\* with a NaN is NaN, which is not > 0
slope_positive(y) ==
    /\ \A i \in DOMAIN y : ~IsNA(y[i])
    /\ SlopeSum(y, 1) > 0

\* the flat test with the threshold included
pct_change_small_inclusive(y) ==
    /\ ~IsNA(y[1]) /\ ~IsNA(y[Len(y)])
    /\ y[1][1] # 0
    /\ 100 * Abs(y[Len(y)][1] - y[1][1]) <= Abs(y[1][1])

\* lines 174-181, for len(y) > 1: abs(pct_change) < 1.0 with
\* pct_change = (y[-1] - y[0]) / y[0] * 100 in numpy arithmetic: a NaN end
\* gives NaN and y[0] = 0 gives inf or NaN, and neither is < 1.0
pct_change_small(y) ==
    /\ ~IsNA(y[1]) /\ ~IsNA(y[Len(y)])
    /\ y[1][1] # 0
    /\ 100 * Abs(y[Len(y)][1] - y[1][1]) < Abs(y[1][1])

\* the classifier naming every series that is not flat increasing
determine_price_trend_unsigned(price_series) ==
    IF Len(price_series) < 3 THEN "flat"
    ELSE IF pct_change_small(price_series) THEN "flat"
    ELSE "increasing"

\* lines 159-187
determine_price_trend(price_series) ==
    IF Len(price_series) < 3 THEN "flat"
    ELSE IF pct_change_small(price_series) THEN "flat"
    ELSE IF slope_positive(price_series) THEN "increasing"
    ELSE "decreasing"

\* lines 151-156: df[df['timestamp'] >= cutoff]; the current time is not
\* compared
since(series, cutoff, now) ==
    SelectSeq(series, LAMBDA o : o.timestamp >= cutoff)

\* sort_values('timestamp') of a window whose observations have distinct
\* timestamps (one observation per bucket), by insertion
RECURSIVE sort_by_timestamp(_)
sort_by_timestamp(w) ==
    IF w = <<>> THEN <<>>
    ELSE LET rest == sort_by_timestamp(Tail(w))
         IN  SelectSeq(rest, LAMBDA o : o.timestamp < Head(w).timestamp)
             \o <<Head(w)>>
             \o SelectSeq(rest, LAMBDA o : o.timestamp >= Head(w).timestamp)

\* the cells of one column of the window
column_of(w, column) == [i \in DOMAIN w |-> w[i][column]]

\* lines 190-232 for one window w and one price column: 'flat' unless the
\* window has at least 3 observations
window_trend(w, column) ==
    IF Len(w) >= 3
    THEN LET sorted == sort_by_timestamp(w)
         IN  determine_price_trend(column_of(sorted, column))
    ELSE "flat"

RECURSIVE SumSeq(_)
SumSeq(xs) == IF xs = <<>> THEN 0 ELSE Head(xs) + SumSeq(Tail(xs))

\* Series.sum() of a volume column of the window, 0 for an empty window
volume_sum(w, column) == SumSeq(column_of(w, column))

\* Series.mean() as the pair <<sum, count>> over the cells that are not
\* null: NaN when there is none
mean_of(cells) ==
    LET known == SelectSeq(cells, LAMBDA c : ~IsNA(c))
    IN  IF known = <<>> THEN NA
        ELSE Val(<<SumSeq([i \in DOMAIN known |-> known[i][1]]), Len(known)>>)

\* avgHighPrice - avgLowPrice of every observation of the window
margins_of(w) ==
    [i \in DOMAIN w |->
        IF IsNA(w[i].avgHighPrice) \/ IsNA(w[i].avgLowPrice) THEN NA
        ELSE Val(w[i].avgHighPrice[1] - w[i].avgLowPrice[1])]

\* the part of a volume column's name before its window
metric_of(c) ==
    CASE c \in {"bought_volume_20m", "bought_volume_1h", "bought_volume_24h"} -> "bought_volume"
      [] c \in {"sold_volume_20m", "sold_volume_1h", "sold_volume_24h"} -> "sold_volume"
      [] c \in {"avg_bought_price_20m", "avg_bought_price_1h", "avg_bought_price_24h"} -> "avg_bought_price"
      [] c \in {"avg_sold_price_20m", "avg_sold_price_1h", "avg_sold_price_24h"} -> "avg_sold_price"
      [] c \in {"avg_margin_gp_20m", "avg_margin_gp_1h", "avg_margin_gp_24h"} -> "avg_margin_gp"
      [] c \in {"bought_price_trend_1h", "bought_price_trend_24h",
                "bought_price_trend_1w", "bought_price_trend_1m"} -> "bought_price_trend"
      [] OTHER -> "sold_price_trend"

\* the length in minutes of the window a volume column is computed over
\* (lines 143-149), and whether it is cut from the 24h-step series
window_minutes(c) ==
    CASE c \in {"bought_volume_20m", "sold_volume_20m", "avg_bought_price_20m",
                "avg_sold_price_20m", "avg_margin_gp_20m"} -> 20
      [] c \in {"bought_volume_1h", "sold_volume_1h", "avg_bought_price_1h",
                "avg_sold_price_1h", "avg_margin_gp_1h",
                "bought_price_trend_1h", "sold_price_trend_1h"} -> 60
      [] c \in {"bought_price_trend_1w", "sold_price_trend_1w"} -> 7 * 24 * 60
      [] c \in {"bought_price_trend_1m", "sold_price_trend_1m"} -> 30 * 24 * 60
      [] OTHER -> 24 * 60

from_coarse(c) ==
    c \in {"bought_price_trend_1w", "sold_price_trend_1w",
           "bought_price_trend_1m", "sold_price_trend_1m"}

\* lines 230-265: the value of metrics[c] computed from the window w; the
\* sums and means of an empty window are the literal 0
metric_value(c, w) ==
    CASE metric_of(c) = "bought_price_trend" -> Val(window_trend(w, "avgHighPrice"))
      [] metric_of(c) = "sold_price_trend"   -> Val(window_trend(w, "avgLowPrice"))
      [] w = <<>>                            -> Val(0)
      [] metric_of(c) = "bought_volume"      -> Val(volume_sum(w, "highPriceVolume"))
      [] metric_of(c) = "sold_volume"        -> Val(volume_sum(w, "lowPriceVolume"))
      [] metric_of(c) = "avg_bought_price"   -> mean_of(column_of(w, "avgHighPrice"))
      [] metric_of(c) = "avg_sold_price"     -> mean_of(column_of(w, "avgLowPrice"))
      [] OTHER                               -> mean_of(margins_of(w))

\* calculate_volume_metrics with the two timeseries answers and the clock
\* reading given: NA for the empty map {}, or Val(the metrics by column)
calculate_volume_metrics(item_id, timeseries_5m, timeseries_24h, now) ==
    IF IsNA(timeseries_5m) THEN NA
    ELSE IF timeseries_5m[1] = <<>> THEN NA
    ELSE LET data_5m  == timeseries_5m[1]
             data_24h == IF IsNA(timeseries_24h) THEN <<>> ELSE timeseries_24h[1]
         IN  Val([c \in VolumeColumnSet |->
                    metric_value(c, since(IF from_coarse(c) THEN data_24h ELSE data_5m,
                                          now - window_minutes(c), now))])

-----------------------------------------------------------------------------
(* Volume enrichment *)

\* default of load_volume_data's max_items
max_items == 50

\* what one item's calculate_volume_metrics call can do inside the batch
FetchOutcomes == {"raise", "empty", "ok"}

\* what pd.Timestamp.now reads in calculate_volume_metrics, in minutes
MetricsNow == 50000

\* the observation of the last hour's k-th bucket of an item: item 1 is
\* traded 40/60 in the hour at rising prices, every other item 5/5 at
\* falling prices
Bucket(item_id, k, stamp) ==
    IF item_id = 1
    THEN [timestamp |-> stamp,
          avgHighPrice |-> Val(95 + 5 * k), avgLowPrice |-> Val(85 + 5 * k),
          highPriceVolume |-> IF k = 3 THEN 20 ELSE 10, lowPriceVolume |-> 20]
    ELSE [timestamp |-> stamp,
          avgHighPrice |-> Val(53 - k), avgLowPrice |-> Val(51 - k),
          highPriceVolume |-> IF k = 3 THEN 1 ELSE 2,
          lowPriceVolume |-> IF k = 3 THEN 1 ELSE 2]

\* get_timeseries(item_id, '5m') as the source answers it to the k-th fetch
\* of a batch: no observation, or the buckets of 50, 30 and 10 minutes ago
Timeseries5m(item_id, fetch) ==
    IF fetch = "empty" THEN Val(<<>>)
    ELSE Val([k \in 1 .. 3 |-> Bucket(item_id, k, MetricsNow - 70 + 20 * k)])

\* get_timeseries(item_id, '24h'): the buckets of the last three days
Timeseries24h(item_id) ==
    Val([k \in 1 .. 3 |-> Bucket(item_id, k, MetricsNow - 1440 * (4 - k))])

\* the item ids of the catalogues
KnownItems == {1, 2, 3, 4, 5, 9}

\* calculate_volume_metrics(item_id) for every item and both answers of the
\* fine series, computed once
MetricsByItem ==
    [item_id \in KnownItems |->
        [fetch \in {"empty", "ok"} |->
            calculate_volume_metrics(item_id, Timeseries5m(item_id, fetch),
                                     Timeseries24h(item_id), MetricsNow)]]

\* line 408: the map calculate_volume_metrics(item_id) returns to the batch
\* when nothing raises (NA is the empty map)
volume_metrics(item_id, fetch) == MetricsByItem[item_id][fetch]

\* line 410, `if volume_metrics:`, of a fetch that did not raise
fetched(item_id, fetch) ==
    fetch # "raise" /\ ~IsNA(volume_metrics(item_id, fetch))

\* lines 398-402: trend columns start as 'flat', the others as 0.0
volume_defaults ==
    [c \in VolumeColumnSet |-> IF c \in TrendColumnSet THEN Val("flat") ELSE Val(0)]

\* the batch loop writing by label, which adds a row for an item the
\* dataset does not have
RECURSIVE enrich_from_enlarging(_, _, _, _)
enrich_from_enlarging(rows, ids, outcome, k) ==
    IF k > Len(ids) THEN rows
    ELSE enrich_from_enlarging(
             IF fetched(ids[k], outcome[k])
             THEN IF \E i \in DOMAIN rows : rows[i].item_id = ids[k]
                  THEN [i \in DOMAIN rows |->
                          IF rows[i].item_id = ids[k]
                          THEN [rows[i] EXCEPT !.vol = volume_metrics(ids[k], outcome[k])[1]]
                          ELSE rows[i]]
                  ELSE Append(rows,
                              [MergedRow([item_id |-> ids[k], bought_price |-> NA,
                                          last_bought_time |-> NA, sold_price |-> NA,
                                          last_sold_time |-> NA], None)
                                  EXCEPT !.vol = volume_metrics(ids[k], outcome[k])[1]])
             ELSE rows,
             ids, outcome, k + 1)

\* the batch loop stopping at the first fetch that raises
RECURSIVE enrich_from_aborting(_, _, _, _)
enrich_from_aborting(rows, ids, outcome, k) ==
    IF k > Len(ids) \/ outcome[k] = "raise" THEN rows
    ELSE enrich_from_aborting(
             IF fetched(ids[k], outcome[k])
             THEN [i \in DOMAIN rows |->
                     IF rows[i].item_id = ids[k]
                     THEN [rows[i] EXCEPT !.vol = volume_metrics(ids[k], outcome[k])[1]]
                     ELSE rows[i]]
             ELSE rows,
             ids, outcome, k + 1)

\* lines 406-425 from position k of item_ids on: outcome[k] is what the k-th
\* fetch does; a map that is not empty is written to the rows of that item
RECURSIVE enrich_from(_, _, _, _)
enrich_from(rows, ids, outcome, k) ==
    IF k > Len(ids) THEN rows
    ELSE enrich_from(
             IF fetched(ids[k], outcome[k])
             THEN [i \in DOMAIN rows |->
                     IF rows[i].item_id = ids[k]
                     THEN [rows[i] EXCEPT !.vol = volume_metrics(ids[k], outcome[k])[1]]
                     ELSE rows[i]]
             ELSE rows,
             ids, outcome, k + 1)

\* the count of the batch that also counts the empty maps
successful_fetches_all(ids, outcome) ==
    Cardinality({k \in DOMAIN ids : outcome[k] # "raise"})

\* line 415: the fetches whose map was not empty
successful_fetches(ids, outcome) ==
    Cardinality({k \in DOMAIN ids : fetched(ids[k], outcome[k])})

\* the list load_volume_data iterates: item_ids, or the first max_items ids
batch_ids(d, item_ids) ==
    IF IsNA(item_ids)
    THEN [i \in 1 .. (IF Len(d.rows) < max_items THEN Len(d.rows) ELSE max_items) |->
             d.rows[i].item_id]
    ELSE item_ids[1]

\* load_volume_data initialising the volume columns only where the dataset
\* has none yet, so that earlier values stay
load_volume_data_keeping(d, item_ids, outcome) ==
    LET ids      == batch_ids(d, item_ids)
        reset    == IF VolumeColumnSet \subseteq d.cols THEN d.rows
                    ELSE [i \in DOMAIN d.rows |-> [d.rows[i] EXCEPT !.vol = volume_defaults]]
        enriched == enrich_from(reset, ids, outcome, 1)
        cols     == d.cols \cup VolumeColumnSet
        ok       == successful_fetches(ids, outcome)
    IN  IF "margin_gp" \notin d.cols
        THEN [df |-> [cols |-> cols, rows |-> enriched],
              successful_fetches |-> ok, raised |-> TRUE]
        ELSE [df |-> [cols |-> cols \cup {"flip_efficiency"},
                      rows |-> [i \in DOMAIN enriched |->
                                  [enriched[i] EXCEPT !.flip_efficiency =
                                                         flip_efficiency_of(enriched[i])]]],
              successful_fetches |-> ok, raised |-> FALSE]

\* load_volume_data on the non-empty frame d, mutated in place: the frame
\* afterwards, the number of successful fetches, and whether the final
\* recomputation of flip_efficiency raised a KeyError (no margin_gp column)
load_volume_data(d, item_ids, outcome) ==
    LET ids      == batch_ids(d, item_ids)
        reset    == [i \in DOMAIN d.rows |-> [d.rows[i] EXCEPT !.vol = volume_defaults]]
        enriched == enrich_from(reset, ids, outcome, 1)
        cols     == d.cols \cup VolumeColumnSet
        ok       == successful_fetches(ids, outcome)
    IN  IF "margin_gp" \notin d.cols
        THEN [df |-> [cols |-> cols, rows |-> enriched],
              successful_fetches |-> ok, raised |-> TRUE]
        ELSE [df |-> [cols |-> cols \cup {"flip_efficiency"},
                      rows |-> [i \in DOMAIN enriched |->
                                  [enriched[i] EXCEPT !.flip_efficiency =
                                                         flip_efficiency_of(enriched[i])]]],
              successful_fetches |-> ok, raised |-> FALSE]

-----------------------------------------------------------------------------
(* Persistence: what reading a file can give *)

\* a row with the price fields given and every other field null
PriceOnlyRow(item_id, bought, sold) ==
    MergedRow([item_id |-> item_id, bought_price |-> bought, last_bought_time |-> NA,
               sold_price |-> sold, last_sold_time |-> NA], None)

\* a file written by save() after a load of the second snapshot
SavedFrame == fetch_and_build(MappingScenario, LatestLater)

\* a file of another tool: item ids and names only
NamesOnlyFrame ==
    [cols |-> {"item_id", "name"},
     rows |-> << [PriceOnlyRow(1, NA, NA) EXCEPT !.name = Name(<<"A", "x", "e">>)] >>]

\* a file with the prices but without the two time columns
NoTimesFrame ==
    [cols |-> {"item_id", "bought_price", "sold_price"},
     rows |-> << PriceOnlyRow(2, Val(50), Val(48)) >>]

\* a file with a header line and no record
HeaderOnlyFrame == [cols |-> PriceColumns, rows |-> <<>>]

\* what lines 855-877 end with: an exception of the reader (missing or
\* malformed file), an unsupported format, or the frame that was read
FileReads ==
    {[kind |-> "error", frame |-> None], [kind |-> "unsupported", frame |-> None]}
    \cup {[kind |-> "frame", frame |-> f] :
             f \in {SavedFrame, NamesOnlyFrame, NoTimesFrame, HeaderOnlyFrame}}

\* the formats save and load_from_file know (compared after format.lower())
SupportedFormats == {"csv", "json", "pickle"}

\* the formats the sessions ask for
FormatChoices == SupportedFormats \cup {"parquet"}

\* what df.to_csv(index=False) / to_json(orient='records') / to_pickle put
\* in the file: the columns of the frame and, row by row, the cells of those
\* columns, derived and volume columns included
to_file(d, format) == [format |-> format, cols |-> d.cols, rows |-> d.rows]

\* save(filepath, format) on the retained value d: the boolean returned and
\* the file written (None when none is); written is whether the writer
\* finished without an exception
save(d, format, written) ==
    IF NoData(d) THEN [result |-> FALSE, file |-> None]
    ELSE IF format \notin SupportedFormats \/ ~written THEN [result |-> FALSE, file |-> None]
    ELSE [result |-> TRUE, file |-> to_file(d, format)]

\* pd.read_csv / read_json / read_pickle of a file save wrote, with the two
\* time columns made timestamps again where they exist (lines 857-873): the
\* frame has the columns of the file; read_csv reads an empty text field as
\* null, so a name that is the empty string comes back null
read_file(file) ==
    [cols |-> file.cols,
     rows |-> IF file.format = "csv"
              THEN [i \in DOMAIN file.rows |->
                      [file.rows[i] EXCEPT !.name = IF @ = Val(<<>>) THEN NA ELSE @]]
              ELSE file.rows]

\* load_from_file on the retained value d: self.df afterwards and the
\* boolean returned
load_from_file(d, read) ==
    IF read.kind \in {"error", "unsupported"} THEN [df |-> d, result |-> FALSE]
    ELSE LET c == compute_derived_columns(read.frame)
         IN  [df |-> c.df, result |-> ~c.raised]

-----------------------------------------------------------------------------
(* The calls the model tries *)

\* one criterion at a time, and the pair of the two-item scenario
CriteriaChoices ==
    {DefaultArgs,
     [DefaultArgs EXCEPT !.margin_min = Val(5)],
     [DefaultArgs EXCEPT !.margin_min = Val(200)],
     [DefaultArgs EXCEPT !.volume_1h_min = Val(20)],
     [DefaultArgs EXCEPT !.volume_24h_min = Val(20)],
     [DefaultArgs EXCEPT !.margin_min = Val(5), !.volume_1h_min = Val(20)],
     [DefaultArgs EXCEPT !.margin_min = Val(5), !.volume_1h_min = Val(50)],
     [DefaultArgs EXCEPT !.members_only = Val(TRUE)],
     [DefaultArgs EXCEPT !.max_hours_since_update = Val(2)],
     [DefaultArgs EXCEPT !.max_hours_since_update = Val(1)],
     [DefaultArgs EXCEPT !.bought_price_min = Val(100)],
     [DefaultArgs EXCEPT !.bought_price_min = Val(49)],
     [DefaultArgs EXCEPT !.bought_price_max = Val(49)],
     [DefaultArgs EXCEPT !.sold_price_min = Val(105)],
     [DefaultArgs EXCEPT !.sold_price_max = Val(51)],
     [DefaultArgs EXCEPT !.bought_price_max = Val(49), !.sold_price_min = Val(50)],
     [DefaultArgs EXCEPT !.buy_limit_min = Val(10)],
     [DefaultArgs EXCEPT !.name_contains = Val(<<"a", "X">>)],
     [DefaultArgs EXCEPT !.exclude_items = Val(<< <<"b", "a">>, <<"o", "r", "e">> >>)],
     [DefaultArgs EXCEPT !.exclude_items = Val(<<>>)]}

SortChoices ==
    {SortTuple("last_bought_time", "desc"), SortTuple("margin_gp", "asc"),
     SortTuple("no_such_column", "desc"), SortStr("item_id"),
     SortStr("no_such_column"), SortNone}

LimitChoices == {NA} \cup {Val(n) : n \in 0 .. MaxLimit}

\* every call the filter sessions try
FilterArgs ==
    CriteriaChoices
    \cup {[DefaultArgs EXCEPT !.sort_by = sb, !.limit = lim] :
             sb \in SortChoices, lim \in LimitChoices}

\* the calls the general sessions try
SessionArgs ==
    {DefaultArgs,
     [DefaultArgs EXCEPT !.margin_min = Val(5)],
     [DefaultArgs EXCEPT !.margin_min = Val(200)],
     [DefaultArgs EXCEPT !.volume_1h_min = Val(20)],
     [DefaultArgs EXCEPT !.margin_min = Val(5), !.volume_1h_min = Val(20)],
     [DefaultArgs EXCEPT !.sort_by = SortTuple("margin_gp", "asc"), !.limit = Val(1)]}

\* item_ids of load_volume_data: None, or a list (item 9 is in no dataset)
ItemIdChoices == {NA, Val(<<1>>), Val(<<2, 9>>)}

\* what the two sources answer to one load: [m: /mapping, p: /latest]
NoFetch == [m |-> <<>>, p |-> <<>>]

GoodUpstream ==
    {[m |-> MappingScenario, p |-> LatestScenario],
     [m |-> MappingRepeated, p |-> LatestLater]}

Upstream ==
    GoodUpstream
    \cup {NoFetch, [m |-> <<>>, p |-> LatestScenario], [m |-> MappingScenario, p |-> <<>>]}

\* every way the fetches of a batch of n items can end
Outcomes(n) == [1 .. n -> FetchOutcomes]

AllOk(n) == [k \in 1 .. n |-> "ok"]

\* what pd.Timestamp.now can read when a call asks for the time
ClockReadings == 10 .. MaxNow

-----------------------------------------------------------------------------
(* State machine *)

\* the record of a call: pre is self.df before it, at the clock reading it
\* took (NA if it took none), repeat whether it is apply_filter called again
\* right after apply_filter with the same arguments and the same reading
Call(op, input, raised, result, at, repeat) ==
    [op |-> op, input |-> input, pre |-> df, raised |-> raised,
     result |-> result, at |-> at, repeat |-> repeat]

Init ==
    /\ df = None
    /\ ret = None
    /\ aliased = FALSE
    /\ last = [op |-> "init", input |-> None, pre |-> None, raised |-> FALSE,
               result |-> None, at |-> NA, repeat |-> FALSE]

\* load_data(force_reload): u is what the sources answer; they are asked
\* only past the early return
LoadData(force_reload, u) ==
    /\ (~force_reload /\ df # None) => u = NoFetch
    /\ df' = load_data(df, force_reload, u.m, u.p)
    /\ ret' = None
    /\ aliased' = FALSE
    /\ last' = Call("load_data",
                    [force_reload |-> force_reload, upstream |-> u,
                     upstream_empty |-> (u.m = <<>> \/ u.p = <<>>)],
                    FALSE, None, NA, FALSE)

\* load_volume_data(item_ids) on a dataset: outcome[k] is how the k-th fetch ends
LoadVolumeData(item_ids, outcome) ==
    /\ ~NoData(df)
    /\ outcome \in Outcomes(Len(batch_ids(df, item_ids)))
    /\ LET o == load_volume_data(df, item_ids, outcome)
       IN  /\ df' = o.df
           /\ last' = Call("load_volume_data",
                           [item_ids |-> item_ids, outcome |-> outcome],
                           o.raised, Val(o.successful_fetches), NA, FALSE)
    /\ ret' = None
    /\ aliased' = FALSE

\* load_volume_data when there is nothing to enrich (lines 374-376)
LoadVolumeDataNoData ==
    /\ NoData(df)
    /\ last' = Call("load_volume_data", [item_ids |-> NA, outcome |-> <<>>],
                    FALSE, Val(0), NA, FALSE)
    /\ ret' = None
    /\ aliased' = FALSE
    /\ UNCHANGED df

\* apply_filter(**a).  u is what the sources answer to the implicit
\* load_data, asked only when self.df is None; t is what the clock reads,
\* asked only by the recency criterion (line 545).
ApplyFilter(a, u, t) ==
    /\ df # None => u = NoFetch
    /\ IF IsNA(a.max_hours_since_update) THEN t = NA ELSE t \in {Val(c) : c \in ClockReadings}
    /\ \E o \in apply_filter(df, a, IF t = NA THEN 0 ELSE t[1], u.m, u.p) :
          /\ df' = o.df
          /\ ret' = o.returned
          /\ aliased' = o.same
          /\ last' = Call("apply_filter", a, o.raised, None, t,
                          last.op = "apply_filter" /\ last.input = a /\ last.at = t)

\* get_data(): a copy of self.df, or an empty frame
GetData ==
    /\ ret' = IF df = None THEN EmptyFrame ELSE df
    /\ aliased' = FALSE
    /\ last' = Call("get_data", None, FALSE, None, NA, FALSE)
    /\ UNCHANGED df

\* the caller changes the frame it was handed, in place:
\* returned.drop(returned.index[0], inplace=True)
CallerMutates ==
    /\ ret # None
    /\ Len(ret.rows) > 0
    /\ ret' = [ret EXCEPT !.rows = Tail(@)]
    /\ df' = IF aliased THEN ret' ELSE df
    /\ last' = Call("caller_mutates", None, FALSE, None, NA, FALSE)
    /\ UNCHANGED aliased

\* load_from_file(filepath, format): read is what reading the file gives
LoadFromFile(read) ==
    /\ LET o == load_from_file(df, read)
       IN  /\ df' = o.df
           /\ last' = Call("load_from_file",
                           [kind |-> read.kind,
                            format |-> IF read.kind = "saved" THEN last.input ELSE "any"],
                           FALSE, Val(o.result), NA, FALSE)
    /\ ret' = None
    /\ aliased' = FALSE

\* save(filepath, format)
Save(format, written) ==
    /\ last' = Call("save", format, FALSE, Val(save(df, format, written).result), NA, FALSE)
    /\ ret' = None
    /\ aliased' = FALSE
    /\ UNCHANGED df

\* what reading the path gives right after a save to it that returned True,
\* when the same format is asked for
SavedReads ==
    IF last.op = "save"
    THEN IF last.result = Val(TRUE)
         THEN {[kind |-> "saved", frame |-> read_file(save(last.pre, last.input, TRUE).file)]}
         ELSE {}
    ELSE {}

Readings == {NA} \cup {Val(c) : c \in ClockReadings}

\* General sessions: every operation, in any order, with a few filter calls.
Next ==
    \/ \E force_reload \in BOOLEAN, u \in Upstream : LoadData(force_reload, u)
    \/ \E item_ids \in ItemIdChoices, outcome \in UNION {Outcomes(n) : n \in 0 .. 3} :
          LoadVolumeData(item_ids, outcome)
    \/ LoadVolumeDataNoData
    \/ \E a \in SessionArgs, u \in Upstream, t \in Readings : ApplyFilter(a, u, t)
    \/ GetData
    \/ CallerMutates
    \/ \E read \in FileReads \cup SavedReads : LoadFromFile(read)
    \/ \E format \in FormatChoices, written \in BOOLEAN : Save(format, written)

Spec == Init /\ [][Next]_vars

\* Filter sessions: a dataset is loaded, possibly enriched in full, and then
\* filtered any number of times with any of the calls.
NextFilter ==
    \/ \E u \in GoodUpstream : LoadData(TRUE, u)
    \/ \E n \in 1 .. 3 : LoadVolumeData(NA, AllOk(n))
    \/ \E a \in FilterArgs, u \in GoodUpstream \cup {NoFetch}, t \in Readings :
          ApplyFilter(a, u, t)

SpecFilter == Init /\ [][NextFilter]_vars

-----------------------------------------------------------------------------
(* The metrics of one item, on their own *)

\* the prices of the series tried: null, 0, prices within 1% of each other,
\* one exactly 1% above the lowest, and one far above
PointValues == {NA} \cup {Val(v) : v \in {0, 1000, 1001, 1002, 1003, 1010, 1100}}

PriceSeries == UNION {[1 .. n -> PointValues] : n \in 0 .. MaxPoints}

\* the k-th observation of the series tried, stamped at now + offset
Observation(k, offset) ==
    [timestamp |-> MetricsNow + offset,
     avgHighPrice |-> Val(100 + 5 * k), avgLowPrice |-> Val(90 + 5 * k),
     highPriceVolume |-> 2 ^ (k - 1), lowPriceVolume |-> 8 * 2 ^ (k - 1)]

\* lists of up to three observations with distinct stamps at the offsets
SeriesAt(offsets) ==
    UNION {{[k \in 1 .. n |-> Observation(k, f[k])] :
               f \in {g \in [1 .. n -> offsets] : \A i, j \in 1 .. n : g[i] = g[j] => i = j}} :
           n \in 1 .. 3}

\* stamps around the edges of the 20m, 1h and 24h windows, at now and after
FineOffsets == {0 - 1441, 0 - 1440, 0 - 61, 0 - 60, 0 - 20, 0, 5}

\* stamps around the edges of the week and the month, and after now
CoarseOffsets == {0 - 43201, 0 - 43200, 0 - 10080, 0 - 1440, 1440}

FineAnswers == {NA, Val(<<>>)} \cup {Val(x) : x \in SeriesAt(FineOffsets)}

CoarseAnswers == {NA, Val(<<>>)} \cup {Val(x) : x \in SeriesAt(CoarseOffsets)}

\* a fine and a coarse answer that are whole
FineWhole == Val([k \in 1 .. 3 |-> Observation(k, 10 * k - 40)])

CoarseWhole == Val([k \in 1 .. 3 |-> Observation(k, 1440 * (k - 4))])

\* the pairs of answers tried: every fine one, and every coarse one
TimeseriesAnswers ==
    {[fine |-> x, coarse |-> CoarseWhole] : x \in FineAnswers}
    \cup {[fine |-> x, coarse |-> y] : x \in {NA, Val(<<>>), FineWhole}, y \in CoarseAnswers}

\* the record of an input that was drawn and not used yet
Drawn(kind, input) ==
    [op |-> kind, input |-> input, pre |-> None, raised |-> FALSE,
     result |-> None, at |-> NA, repeat |-> FALSE]

\* an input is drawn: a price series, or the answers to the two requests
InitMetrics ==
    /\ df = None
    /\ ret = None
    /\ aliased = FALSE
    /\ \/ \E y \in PriceSeries : last = Drawn("price_series", y)
       \/ \E x \in TimeseriesAnswers : last = Drawn("timeseries", x)

\* determine_price_trend(price_series) on the series drawn
DeterminePriceTrend ==
    /\ last.op = "price_series"
    /\ last' = [last EXCEPT !.op = "determine_price_trend",
                            !.result = Val(determine_price_trend(last.input))]
    /\ UNCHANGED <<df, ret, aliased>>

\* calculate_volume_metrics(item_id) with the answers drawn
CalculateVolumeMetrics ==
    /\ last.op = "timeseries"
    /\ last' = [last EXCEPT !.op = "calculate_volume_metrics",
                            !.result = calculate_volume_metrics(1, last.input.fine,
                                                                last.input.coarse, MetricsNow),
                            !.at = Val(MetricsNow)]
    /\ UNCHANGED <<df, ret, aliased>>

NextMetrics == DeterminePriceTrend \/ CalculateVolumeMetrics

SpecMetrics == InitMetrics /\ [][NextMetrics]_vars

-----------------------------------------------------------------------------
(* Properties *)

RowSet(d) == {d.rows[i] : i \in DOMAIN d.rows}

ItemIds(d) == {d.rows[i].item_id : i \in DOMAIN d.rows}

\* the dataset has the 1-hour and 24-hour volume columns
Enriched(d) ==
    {"bought_volume_1h", "sold_volume_1h", "bought_volume_24h", "sold_volume_24h"}
        \subseteq d.cols

\* the dataset has none of the bought_volume_* / sold_volume_* columns
NotEnriched(d) == d.cols \cap VolumeColumnSet = {}

VolumeCriterion(a) == ~IsNA(a.volume_1h_min) \/ ~IsNA(a.volume_24h_min)

WithoutVolume(a) == [a EXCEPT !.volume_1h_min = NA, !.volume_24h_min = NA]

\* the clock reading of the last call as a number (0 when it took none)
LastTime == IF last.at = NA THEN 0 ELSE last.at[1]

\* the last call was apply_filter on a dataset with rows
FilteredData == last.op = "apply_filter" /\ ~NoData(last.pre)

\* C1: apply_filter with volume_1h_min or volume_24h_min on a dataset without
\* the volume columns skips the volume criterion: it raises nothing and
\* returns what the same call without the volume criterion returns.
C1_VolumeCriterionSkipped ==
    (FilteredData /\ VolumeCriterion(last.input) /\ NotEnriched(last.pre)) =>
        /\ ~last.raised
        /\ ret \in {o.returned :
                      o \in apply_filter(last.pre, WithoutVolume(last.input), LastTime, <<>>, <<>>)}

\* C2 as stated: after load_data(force_reload=True) on an engine that holds a
\* dataset, with an empty answer of a source, the retained dataset is the one
\* held before and nothing was raised.
C2_FailedReloadKeepsData ==
    (last.op = "load_data" /\ last.input.force_reload /\ last.input.upstream_empty
        /\ last.pre # None) =>
        (df = last.pre /\ ~last.raised)

\* C2 as amended: after load_data(force_reload=True) with an empty answer of
\* a source nothing was raised and the engine retains no dataset (self.df is
\* None), whatever it held before.
C2_FailedReloadDropsData ==
    (last.op = "load_data" /\ last.input.force_reload /\ last.input.upstream_empty) =>
        (df = None /\ ~last.raised)

\* a forced reload failed on an engine that held a dataset with rows
C2_Witness ==
    /\ last.op = "load_data" /\ last.input.force_reload /\ last.input.upstream_empty
    /\ ~NoData(last.pre)

\* C3: whenever load_from_file returns False the retained dataset is the one
\* held before the call.
C3_FailedFileLoadKeepsData ==
    (last.op = "load_from_file" /\ last.result = Val(FALSE)) => df = last.pre

\* C4: a caller changing a frame it was handed (by get_data or by
\* apply_filter) never changes the retained dataset.
C4_ReturnedFramesAreCopies ==
    last.op = "caller_mutates" => df = last.pre

C6_UnderlyingUnchanged ==
    FilteredData => df = last.pre

\* C7: no row of a frame apply_filter returns has a null bought_price or
\* sold_price.
C7_NoNullPrices ==
    (last.op = "apply_filter" /\ ~last.raised) =>
        \A i \in DOMAIN ret.rows :
            ~IsNA(ret.rows[i].bought_price) /\ ~IsNA(ret.rows[i].sold_price)

\* a call returned rows from a dataset that had a row with a null price
C7_Witness ==
    /\ FilteredData /\ ~last.raised
    /\ Len(ret.rows) > 0
    /\ \E i \in DOMAIN last.pre.rows : IsNA(last.pre.rows[i].sold_price)

\* the datasets apply_filter(a) can leave retained when called on d at time t
RetainedAfter(d, a, t) == {o.df : o \in apply_filter(d, a, t, <<>>, <<>>)}

\* the clock readings a later call can be given so that it reads what the
\* last call read
SameReadings == IF last.at = NA THEN ClockReadings ELSE {last.at[1]}

\* C8: with no limit, independent criteria commute: from the dataset d0, the
\* call with P1 followed by the call with P2 leaves the same row set as P2
\* followed by P1, and as the one call with the criteria of both.  P1 is the
\* call just made on d0; the calls that follow it are made on what it left.
C8_Commutative ==
    (FilteredData /\ Given(last.input) # {} /\ NoLimit(last.input)) =>
        \A p2 \in CriteriaChoices, t \in SameReadings :
            Independent(last.input, p2) =>
                LET p1 == last.input
                    d0 == last.pre
                    p1_then_p2 == {RowSet(y) : y \in RetainedAfter(df, p2, t)}
                    p2_then_p1 ==
                        UNION {{RowSet(y) : y \in RetainedAfter(x, p1, t)} :
                                  x \in RetainedAfter(d0, p2, t)}
                    both == {RowSet(y) : y \in RetainedAfter(d0, Both(p1, p2), t)}
                IN  p1_then_p2 = p2_then_p1 /\ p2_then_p1 = both

\* C9: apply_filter called again right after apply_filter, with the same
\* arguments and the same clock reading, leaves the retained rows as the
\* first call left them, in the same order.
C9_Idempotent ==
    (last.op = "apply_filter" /\ last.repeat /\ last.pre # None) =>
        (df # None /\ df.rows = last.pre.rows)

\* the rows of d that C10 names for margin_min = m and volume_1h_min = v
C10_Expected(d, m, v) ==
    {r \in RowSet(d) :
        /\ ~IsNA(r.bought_price) /\ ~IsNA(r.sold_price)
        /\ ~IsNA(r.margin_gp) /\ r.margin_gp[1] >= m
        /\ ~IsNA(r.vol["bought_volume_1h"]) /\ r.vol["bought_volume_1h"][1] >= v
        /\ ~IsNA(r.vol["sold_volume_1h"]) /\ r.vol["sold_volume_1h"][1] >= v}

\* the last call gave margin_min and volume_1h_min, and nothing else, to an
\* enriched dataset
C10_Case ==
    /\ FilteredData
    /\ Given(last.input) = {"margin_min", "volume_1h_min"}
    /\ NoLimit(last.input)
    /\ Enriched(last.pre)

\* C10: on an enriched dataset apply_filter(margin_min=m, volume_1h_min=v)
\* returns exactly the rows with prices whose margin_gp is at least m and
\* whose bought and sold 1-hour volumes are both at least v; of A (110/100,
\* volumes 40/60) and B (50/48, volumes 5/5) with m = 5 and v = 20 it
\* returns A alone.
C10_MarginAndVolume ==
    C10_Case =>
        /\ ~last.raised
        /\ RowSet(ret) =
              C10_Expected(last.pre, last.input.margin_min[1], last.input.volume_1h_min[1])
        /\ Len(ret.rows) = Cardinality(RowSet(ret))
        /\ (/\ last.input.margin_min = Val(5) /\ last.input.volume_1h_min = Val(20)
            /\ last.pre = load_volume_data(fetch_and_build(MappingScenario, LatestScenario),
                                           NA, AllOk(3)).df)
              => ItemIds(ret) = {1}

\* the call of the scenario returned A alone, and a call turned down a row
\* that reaches the threshold on one side only
C10_Witness ==
    /\ C10_Case
    /\ \/ /\ last.input.volume_1h_min = Val(20)
          /\ ItemIds(last.pre) = {1, 2, 3}
          /\ ItemIds(ret) = {1}
       \/ /\ last.input.volume_1h_min = Val(50)
          /\ \E r \in RowSet(last.pre) \ RowSet(ret) :
                /\ Ge(r.margin_gp, 5)
                /\ Ge(r.vol["sold_volume_1h"], 50)
                /\ ~Ge(r.vol["bought_volume_1h"], 50)

\* the last call gave max_hours_since_update, and nothing else, to a dataset
C11_Case ==
    /\ FilteredData
    /\ Given(last.input) = {"max_hours_since_update"}
    /\ NoLimit(last.input)

\* now - h hours of the last call
C11_Cutoff == last.at[1] - last.input.max_hours_since_update[1]

\* C11: with max_hours_since_update = h a row (that has prices) is returned
\* if and only if one of last_bought_time and last_sold_time is not null and
\* not earlier than now - h; a row with both times null is never returned.
C11_Recency ==
    C11_Case =>
        /\ ~last.raised
        /\ RowSet(ret) =
              {r \in RowSet(last.pre) :
                  /\ ~IsNA(r.bought_price) /\ ~IsNA(r.sold_price)
                  /\ \/ ~IsNA(r.last_bought_time) /\ r.last_bought_time[1] >= C11_Cutoff
                     \/ ~IsNA(r.last_sold_time) /\ r.last_sold_time[1] >= C11_Cutoff}
        /\ \A r \in RowSet(ret) : ~(IsNA(r.last_bought_time) /\ IsNA(r.last_sold_time))

\* a call returned a row whose sale alone is recent and turned down a priced
\* row without times
C11_Witness ==
    /\ C11_Case
    /\ \E r \in RowSet(ret) :
          /\ ~IsNA(r.last_bought_time) /\ r.last_bought_time[1] < C11_Cutoff
          /\ ~IsNA(r.last_sold_time) /\ r.last_sold_time[1] >= C11_Cutoff
    /\ \E r \in RowSet(last.pre) \ RowSet(ret) :
          /\ ~IsNA(r.bought_price) /\ ~IsNA(r.sold_price)
          /\ IsNA(r.last_bought_time) /\ IsNA(r.last_sold_time)

\* the last call gave exclude_items, and nothing else, to a dataset
C12_Case ==
    /\ FilteredData
    /\ Given(last.input) = {"exclude_items"}
    /\ NoLimit(last.input)

\* C12: the exclusion criterion removes a row (that has prices) if and only
\* if its name contains, ignoring case, one of the alternatives of
\* exclude_items; rows with a null name, and every row when the list is
\* empty, are kept.
C12_Exclusion ==
    C12_Case =>
        /\ ~last.raised
        /\ RowSet(ret) =
              {r \in RowSet(last.pre) :
                  /\ ~IsNA(r.bought_price) /\ ~IsNA(r.sold_price)
                  /\ ~(\E k \in DOMAIN last.input.exclude_items[1] :
                          /\ ~IsNA(r.name)
                          /\ Contains(r.name[1], last.input.exclude_items[1][k]))}

\* the filtered and sorted sequences the last call could have truncated
C13_Sorted ==
    sort_step(filter_rows(last.pre, last.input, LastTime), last.pre.cols, last.input)

\* C13: the limit is applied after filtering and sorting: with limit N > 0
\* the call returns the first N rows of the filtered, sorted sequence (all of
\* them if there are fewer), and with limit 0 or None it returns the whole
\* sequence.
C13_LimitAfterSort ==
    (FilteredData /\ ~last.raised) =>
        \E s \in C13_Sorted :
            IF ~IsNA(last.input.limit) /\ last.input.limit[1] > 0
            THEN /\ Len(ret.rows) = IF Len(s) < last.input.limit[1]
                                    THEN Len(s) ELSE last.input.limit[1]
                 /\ \A i \in DOMAIN ret.rows : ret.rows[i] = s[i]
            ELSE ret.rows = s

\* a call cut short a sequence that sorting had put in another order
C13_Witness ==
    /\ FilteredData /\ ~last.raised
    /\ last.input.limit = Val(1)
    /\ last.input.sort_by = SortTuple("margin_gp", "asc")
    /\ Len(ret.rows) = 1
    /\ \A s \in C13_Sorted : Len(s) > 1 /\ s[1] # last.pre.rows[1]

\* the last call named a sort column the dataset does not have
C14_Case ==
    /\ FilteredData
    /\ last.input.sort_by.kind # "none"
    /\ last.input.sort_by.col \notin last.pre.cols
    /\ ~VolumeCriterion(last.input)

\* C14: when the column named in sort_by is not a column of the dataset,
\* apply_filter raises nothing and returns the filtered rows in the order
\* the dataset had them (cut to the limit, if one is given).
C14_UnknownSortColumn ==
    C14_Case =>
        /\ ~last.raised
        /\ LET kept == filter_rows(last.pre, last.input, LastTime)
               n    == IF ~IsNA(last.input.limit) /\ last.input.limit[1] > 0
                          /\ last.input.limit[1] < Len(kept)
                       THEN last.input.limit[1] ELSE Len(kept)
           IN  ret.rows = SubSeq(kept, 1, n)

\* such a call returned several rows that share their last_bought_time
C14_Witness ==
    /\ C14_Case
    /\ Len(ret.rows) > 1
    /\ ret.rows[1].last_bought_time = ret.rows[2].last_bought_time
    /\ ret.rows[1] # ret.rows[2]

\* the classifier was applied to a series of numbers
C15_Classified ==
    /\ last.op = "determine_price_trend"
    /\ \A i \in DOMAIN last.input : ~IsNA(last.input[i])

\* n * sum(x y) - sum(x) * sum(y) for x = 0 .. n-1: the numerator of the
\* least-squares slope of the series of numbers y, its denominator positive
C15_SlopeNumerator(y) ==
    Len(y) * SumSeq([i \in DOMAIN y |-> (i - 1) * y[i][1]])
        - SumSeq([i \in DOMAIN y |-> i - 1]) * SumSeq([i \in DOMAIN y |-> y[i][1]])

\* C15: the classifier returns flat for a series of fewer than 3
\* observations and for a series whose pct_change = (last - first) / first
\* * 100 is below 1.0 in absolute value, whatever its slope; for any other
\* series it returns increasing when the regression slope is > 0 and
\* decreasing otherwise.  (pct_change is defined when first is not 0.)
C15_TrendRule ==
    (C15_Classified /\ (Len(last.input) >= 3 => last.input[1][1] # 0)) =>
        LET y     == last.input
            first == y[1][1]
            final == y[Len(y)][1]
        IN  last.result =
               Val(IF Len(y) < 3 THEN "flat"
                   ELSE IF 100 * (final - first) < first /\ 100 * (first - final) < first
                   THEN "flat"
                   ELSE IF C15_SlopeNumerator(y) > 0 THEN "increasing"
                   ELSE "decreasing")

\* a series that rises by exactly 1% was classified increasing
C15_Witness ==
    /\ C15_Classified
    /\ Len(last.input) >= 3
    /\ last.input[1] = Val(1000) /\ last.input[Len(last.input)] = Val(1010)
    /\ C15_SlopeNumerator(last.input) > 0
    /\ last.result = Val("increasing")

\* the series in reverse order
Reversed(y) == [i \in DOMAIN y |-> y[Len(y) + 1 - i]]

\* the classifier was applied to a strictly increasing series of 5 numbers
C16_Case ==
    /\ C15_Classified
    /\ Len(last.input) = 5
    /\ \A i \in 1 .. 4 : last.input[i][1] < last.input[i + 1][1]

\* C16 as stated: the reverse of a monotonically increasing 5-point series
\* is classified decreasing.
C16_ReverseIsDecreasing ==
    C16_Case => determine_price_trend(Reversed(last.input)) = "decreasing"

\* C16 as amended: the reverse of a strictly increasing 5-point series is
\* never classified increasing: it is classified decreasing when the fall
\* from its first to its last observation is at least 1% of its first, and
\* flat otherwise.
C16_ReverseNeverIncreasing ==
    C16_Case =>
        LET low  == last.input[1][1]
            high == last.input[5][1]
        IN  determine_price_trend(Reversed(last.input)) =
               IF 100 * (high - low) >= high THEN "decreasing" ELSE "flat"

\* a rising series was classified increasing and its reverse decreasing, the
\* series starting above 0
C16_Witness ==
    /\ C16_Case
    /\ last.input[1][1] > 0
    /\ last.result = Val("increasing")
    /\ determine_price_trend(Reversed(last.input)) = "decreasing"

\* C17: a series of at least 3 observations whose first observation is 0 is
\* classified flat (its pct_change counts as 0).
C17_ZeroFirstIsFlat ==
    (/\ C15_Classified
     /\ Len(last.input) >= 3
     /\ last.input[1] = Val(0)) =>
        last.result = Val("flat")

\* the observations of a series stamped within the last d minutes and not
\* after now
C18_Window(series, d) ==
    SelectSeq(series, LAMBDA o : /\ MetricsNow - d <= o.timestamp
                                 /\ o.timestamp <= MetricsNow)

\* the list under 'data' of an answer, empty for an answer without one
C18_Data(answer) == IF IsNA(answer) THEN <<>> ELSE answer[1]

\* C18: an observation stamped t contributes to the window of length d if
\* and only if now - d <= t <= now: every metric is what its window of the
\* fine series (20m, 1h, 24h) or of the coarse series (1 week, 1 month) gives
\* once the observations stamped before now - d or after now are left out.
C18_WindowsEndAtNow ==
    (last.op = "calculate_volume_metrics" /\ ~IsNA(last.result)) =>
        \A c \in VolumeColumnSet :
            last.result[1][c] =
                metric_value(c, C18_Window(C18_Data(IF from_coarse(c)
                                                    THEN last.input.coarse
                                                    ELSE last.input.fine),
                                           window_minutes(c)))

\* the last call was a batch enrichment of a dataset with rows
Enrichment == last.op = "load_volume_data" /\ ~NoData(last.pre)

\* the list of items the last enrichment fetched
BatchIds == batch_ids(last.pre, last.input.item_ids)

\* the positions of the batch at which the item was fetched
FetchesOf(item_id) == {k \in DOMAIN BatchIds : BatchIds[k] = item_id}

\* every volume column of the row is 0 and every trend column flat
AtDefaults(r) ==
    \A c \in VolumeColumnSet :
        r.vol[c] = IF c \in TrendColumnSet THEN Val("flat") ELSE Val(0)

\* C19: when the fine series of an item of the batch is absent or empty,
\* its metrics map is empty whatever the coarse series holds, its volume
\* columns are 0 and its trend columns flat after the batch, and it is not
\* counted among the successfully enriched items.
C19_EmptySeriesKeepsDefaults ==
    Enrichment =>
        /\ \A k \in DOMAIN BatchIds :
              last.input.outcome[k] = "empty" =>
                 /\ \A fine \in {NA, Val(<<>>)}, coarse \in CoarseAnswers :
                       calculate_volume_metrics(BatchIds[k], fine, coarse, MetricsNow) = NA
                 /\ (\A j \in FetchesOf(BatchIds[k]) : last.input.outcome[j] # "ok") =>
                       \A r \in RowSet(df) : r.item_id = BatchIds[k] => AtDefaults(r)
        /\ last.result =
              Val(Cardinality({k \in DOMAIN BatchIds : last.input.outcome[k] = "ok"}))

\* a batch found the fine series of an item of the dataset empty and that of
\* another item whole
C19_Witness ==
    /\ Enrichment
    /\ \E k, j \in DOMAIN BatchIds :
          /\ last.input.outcome[k] = "empty" /\ last.input.outcome[j] = "ok"
          /\ BatchIds[k] # BatchIds[j]
          /\ \E r \in RowSet(df) : r.item_id = BatchIds[k] /\ AtDefaults(r)
          /\ \E r \in RowSet(df) : r.item_id = BatchIds[j] /\ ~AtDefaults(r)
    /\ last.result = Val(1)

\* the last call was a batch enrichment in which a fetch raised, on a
\* dataset that has its margin_gp column
C20_Case ==
    /\ Enrichment
    /\ "margin_gp" \in last.pre.cols
    /\ \E k \in DOMAIN BatchIds : last.input.outcome[k] = "raise"

\* C20: an exception in one item's fetch does not abort the batch:
\* load_volume_data raises nothing, every item whose fetch succeeds with a
\* fine series that is not empty, later ones included, has its metrics in
\* its rows, and the rows of the failing item hold 0 and flat.
C20_FailureIsIsolated ==
    C20_Case =>
        /\ ~last.raised
        /\ \A k \in DOMAIN BatchIds :
              \A r \in RowSet(df) :
                 r.item_id = BatchIds[k] =>
                    IF \E j \in FetchesOf(BatchIds[k]) : last.input.outcome[j] = "ok"
                    THEN r.vol = calculate_volume_metrics(
                                     r.item_id, Timeseries5m(r.item_id, "ok"),
                                     Timeseries24h(r.item_id), MetricsNow)[1]
                    ELSE AtDefaults(r)
        /\ last.result =
              Val(Cardinality({k \in DOMAIN BatchIds : last.input.outcome[k] = "ok"}))

\* the first fetch of a batch raised and a later item of the dataset was
\* enriched all the same
C20_Witness ==
    /\ C20_Case
    /\ last.input.outcome[1] = "raise"
    /\ \E j \in DOMAIN BatchIds :
          /\ j > 1 /\ last.input.outcome[j] = "ok" /\ BatchIds[j] # BatchIds[1]
          /\ \E r \in RowSet(df) : r.item_id = BatchIds[j] /\ ~AtDefaults(r)
    /\ \E r \in RowSet(df) : r.item_id = BatchIds[1] /\ AtDefaults(r)

\* C21: in every state the sessions reach, each row's flip_efficiency is
\* margin_gp * (sold_volume_1h + bought_volume_1h) / 2 (kept in halves, null
\* when margin_gp is null) when the dataset has the 1-hour volume columns,
\* and 0 when it has not.
C21_FlipEfficiencyInvariant ==
    (~NoData(df)) =>
        /\ "flip_efficiency" \in df.cols
        /\ \A r \in RowSet(df) :
              IF HasVolume1h(df)
              THEN r.flip_efficiency =
                      IF IsNA(r.margin_gp) THEN NA
                      ELSE Val(r.margin_gp[1] * (r.vol["sold_volume_1h"][1]
                                                 + r.vol["bought_volume_1h"][1]))
              ELSE r.flip_efficiency = Val(0)

\* the last call was a load_data that fetched and built a dataset with rows
C22_Build ==
    /\ last.op = "load_data"
    /\ (last.input.force_reload \/ last.pre = None)
    /\ ~NoData(df)

\* C22: after a dataset build every row with both prices has margin_gp =
\* bought_price - round(sold_price) and margin_pct = (bought_price -
\* sold_price) / sold_price * 100 rounded to 2 decimals: in hundredths, the
\* whole number nearest to the quotient (the even one of two equally near).
C22_Margins ==
    C22_Build =>
        \A r \in RowSet(df) :
            (~IsNA(r.bought_price) /\ ~IsNA(r.sold_price)) =>
                LET bought == r.bought_price[1]
                    sold   == r.sold_price[1]
                IN  /\ r.margin_gp = Val(bought - sold)
                    /\ ~IsNA(r.margin_pct)
                    /\ LET off == 2 * Abs(r.margin_pct[1] * sold - (bought - sold) * 10000)
                       IN  off < sold \/ (off = sold /\ r.margin_pct[1] % 2 = 0)

\* a build computed a margin_pct that had to be rounded up (2 / 48 * 100 =
\* 4.1666.. became 4.17) next to a row without a sold_price
C22_Witness ==
    /\ C22_Build
    /\ \E r \in RowSet(df) :
          /\ r.bought_price = Val(50) /\ r.sold_price = Val(48)
          /\ r.margin_gp = Val(2) /\ r.margin_pct = Val(417)
    /\ \E r \in RowSet(df) : IsNA(r.sold_price) /\ IsNA(r.margin_gp)

\* C23: when the price snapshot and the metadata are both non-empty the
\* built dataset has a row for every item of the price snapshot, carrying its
\* prices and times; the metadata fields of a row are null when the metadata
\* has no record of its item; an item the metadata alone lists has no row.
C23_LeftJoin ==
    (/\ last.op = "load_data"
     /\ (last.input.force_reload \/ last.pre = None)
     /\ ~last.input.upstream_empty) =>
        LET prices   == last.input.upstream.p
            metadata == last.input.upstream.m
        IN  /\ df # None
            /\ \A i \in DOMAIN prices :
                  \E r \in RowSet(df) :
                     /\ r.item_id = prices[i].item_id
                     /\ r.bought_price = prices[i].high /\ r.sold_price = prices[i].low
                     /\ r.last_bought_time = prices[i].highTime
                     /\ r.last_sold_time = prices[i].lowTime
            /\ \A r \in RowSet(df) :
                  (\A j \in DOMAIN metadata : metadata[j].id # r.item_id) =>
                     /\ IsNA(r.id) /\ IsNA(r.name)
                     /\ IsNA(r.buy_limit) /\ IsNA(r.members)
            /\ \A r \in RowSet(df) :
                  \E i \in DOMAIN prices : prices[i].item_id = r.item_id

\* a build kept a priced item the metadata does not list, with a null name,
\* and left out an item that only the metadata lists
C23_Witness ==
    /\ C22_Build
    /\ \E r \in RowSet(df) :
          /\ r.item_id = 3 /\ IsNA(r.name)
          /\ \A j \in DOMAIN last.input.upstream.m : last.input.upstream.m[j].id # 3
    /\ \E j \in DOMAIN last.input.upstream.m :
          /\ last.input.upstream.m[j].id = 4
          /\ 4 \notin ItemIds(df)

\* C24: in every state the sessions reach no two rows of the retained
\* dataset have the same item_id, also when the metadata lists an id twice.
C24_UniqueItemIds ==
    df # None =>
        \A i, j \in DOMAIN df.rows :
            df.rows[i].item_id = df.rows[j].item_id => i = j

\* the last call was load_from_file of the path and format of a save that
\* had just returned True (so the dataset saved, last.pre, has rows)
C25_Case == last.op = "load_from_file" /\ last.input.kind = "saved"

\* C25: save followed by load_from_file of the same path and format returns
\* True and leaves a dataset with the same rows in their primitive fields
\* (item_id, name, prices, buy_limit, timestamps), whose margin_gp,
\* margin_pct and flip_efficiency are what compute_derived_columns yields on
\* the saved fields.
C25_RoundTrip ==
    C25_Case =>
        /\ last.result = Val(TRUE)
        /\ df # None
        /\ Len(df.rows) = Len(last.pre.rows)
        /\ LET fresh == compute_derived_columns(last.pre).df
           IN  \A i \in DOMAIN df.rows :
                  /\ df.rows[i].item_id = last.pre.rows[i].item_id
                  /\ df.rows[i].name = last.pre.rows[i].name
                  /\ df.rows[i].bought_price = last.pre.rows[i].bought_price
                  /\ df.rows[i].sold_price = last.pre.rows[i].sold_price
                  /\ df.rows[i].buy_limit = last.pre.rows[i].buy_limit
                  /\ df.rows[i].last_bought_time = last.pre.rows[i].last_bought_time
                  /\ df.rows[i].last_sold_time = last.pre.rows[i].last_sold_time
                  /\ df.rows[i].margin_gp = fresh.rows[i].margin_gp
                  /\ df.rows[i].margin_pct = fresh.rows[i].margin_pct
                  /\ df.rows[i].flip_efficiency = fresh.rows[i].flip_efficiency

\* before the last call the retained dataset was a built dataset reduced to
\* zero rows: not None, without rows, with the columns of a build
C26_Emptied ==
    /\ last.pre # None
    /\ Len(last.pre.rows) = 0
    /\ "margin_gp" \in last.pre.cols

\* C26: once apply_filter has reduced the retained dataset to zero rows,
\* every later apply_filter call returns an empty result without fetching
\* anything, whatever its criteria, until load_data(force_reload=True) or a
\* successful load_from_file runs.  As an invariant of every call made on
\* the emptied dataset: apply_filter raises nothing, returns an empty frame
\* whatever the sources would answer, and leaves the dataset as it is; and
\* only a forced load_data or a load_from_file that returns True changes it.
C26_EmptyStaysEmpty ==
    C26_Emptied =>
        /\ last.op = "apply_filter" =>
              /\ ~last.raised
              /\ ret = EmptyFrame
              /\ \A u \in Upstream :
                    apply_filter(last.pre, last.input, LastTime, u.m, u.p) =
                       {[df |-> last.pre, raised |-> FALSE,
                         returned |-> EmptyFrame, same |-> FALSE]}
        /\ (/\ ~(last.op = "load_data" /\ last.input.force_reload)
            /\ ~(last.op = "load_from_file" /\ last.result = Val(TRUE))) =>
              df = last.pre

\* C27: an apply_filter or load_volume_data call on an engine that holds a
\* dataset never adds an item: the item_ids of the retained dataset after
\* the call are among those before it.
C27_ItemIdsNeverGrow ==
    (last.op \in {"apply_filter", "load_volume_data"} /\ last.pre # None) =>
        /\ df # None
        /\ ItemIds(df) \subseteq ItemIds(last.pre)

\* a call without criteria found item 1 alone of the snapshot it came
\* with: the rows an earlier call had removed were not seen again
C27_Witness ==
    /\ last.op = "apply_filter" /\ last.input = DefaultArgs
    /\ last.pre # None
    /\ ItemIds(last.pre) = {1} /\ ItemIds(df) = {1}

\* C28: every load_volume_data call on a dataset with rows starts from 0 in
\* the volume columns and flat in the trend columns of all rows: after the
\* call the dataset has the volume columns, and a row whose item was not
\* fetched with success by this call holds the defaults, whatever an earlier
\* batch had written to it.
C28_ResetPerBatch ==
    Enrichment =>
        /\ VolumeColumnSet \subseteq df.cols
        /\ Len(df.rows) = Len(last.pre.rows)
        /\ \A i \in DOMAIN df.rows :
              (\A k \in FetchesOf(df.rows[i].item_id) : last.input.outcome[k] # "ok") =>
                 AtDefaults(df.rows[i])

\* a batch that did not fetch an item reset the values an earlier batch had
\* written to its row, and enriched another row
C28_Witness ==
    /\ Enrichment
    /\ VolumeColumnSet \subseteq last.pre.cols
    /\ \E i \in DOMAIN df.rows :
          /\ FetchesOf(df.rows[i].item_id) = {}
          /\ ~AtDefaults(last.pre.rows[i])
          /\ AtDefaults(df.rows[i])
    /\ \E i \in DOMAIN df.rows : ~AtDefaults(df.rows[i])

\* the last call gave price criteria, and nothing else, to a dataset
C29_Case ==
    /\ FilteredData
    /\ Given(last.input) # {}
    /\ Given(last.input) \subseteq
          {"bought_price_min", "bought_price_max", "sold_price_min", "sold_price_max"}
    /\ NoLimit(last.input)

\* C29: bought_price_min and bought_price_max bound the sold_price column,
\* sold_price_min and sold_price_max bound the bought_price column: a row
\* (that has prices) is returned if and only if its sold_price is within
\* the bought_price_* bounds given and its bought_price within the
\* sold_price_* bounds given.
C29_OppositeColumns ==
    C29_Case =>
        /\ ~last.raised
        /\ RowSet(ret) =
              {r \in RowSet(last.pre) :
                  /\ ~IsNA(r.bought_price) /\ ~IsNA(r.sold_price)
                  /\ ~IsNA(last.input.bought_price_min) =>
                        r.sold_price[1] >= last.input.bought_price_min[1]
                  /\ ~IsNA(last.input.bought_price_max) =>
                        r.sold_price[1] <= last.input.bought_price_max[1]
                  /\ ~IsNA(last.input.sold_price_min) =>
                        r.bought_price[1] >= last.input.sold_price_min[1]
                  /\ ~IsNA(last.input.sold_price_max) =>
                        r.bought_price[1] <= last.input.sold_price_max[1]}

\* bought_price_max = 49 with sold_price_min = 50 returned the row bought at
\* 50 and sold at 48, which the columns of the criteria's own names exclude
C29_Witness ==
    /\ C29_Case
    /\ last.input.bought_price_max = Val(49) /\ last.input.sold_price_min = Val(50)
    /\ \E r \in RowSet(ret) : r.bought_price = Val(50) /\ r.sold_price = Val(48)
    /\ \E r \in RowSet(last.pre) \ RowSet(ret) : ~IsNA(r.bought_price) /\ ~IsNA(r.sold_price)

====
